---- MODULE Spec2Model ----
(***************************************************************************)
(* RSI backtesting pipeline of subcode/Preparation.py:                     *)
(*   calculate_rsi -> generate_signals -> backtest_strategy ->             *)
(*   calculate_performance_metrics                                         *)
(* Floating point numbers are modelled as exact rationals [n, d] in lowest *)
(* terms (d > 0), extended with the IEEE values NaN (0/0) and +-Inf (x/0). *)
(* Rounding error of the binary representation is outside the model.       *)
(***************************************************************************)
EXTENDS Integers, Sequences, FiniteSets, TLC

(***************************************************************************)
(* Bounds of the model.                                                    *)
(***************************************************************************)
\* longest price series fed to the full pipeline
MaxLen == 4
\* longest frame handed directly to backtest_strategy with arbitrary signals
MaxDirectLen == 3
\* closing prices a bar of a fetched series may take
Prices == {1, 2, 4}
\* closing prices of a frame handed directly to backtest_strategy
DirectPrices == {1, 4}

(***************************************************************************)
(* Numbers.                                                                *)
(***************************************************************************)
Abs(x) == IF x < 0 THEN -x ELSE x

RECURSIVE GCD(_, _)
GCD(a, b) == IF b = 0 THEN a ELSE GCD(b, a % b)

\* the float n/d; d = 0 gives NaN (n = 0) or a signed infinity
Rat(n, d) ==
    IF d = 0 THEN [n |-> IF n > 0 THEN 1 ELSE IF n < 0 THEN -1 ELSE 0, d |-> 0]
    ELSE LET s == IF d < 0 THEN -1 ELSE 1
             g == GCD(Abs(n), Abs(d))
         IN  [n |-> (s * n) \div g, d |-> (s * d) \div g]

Num(k)  == [n |-> k, d |-> 1]
Zero    == Num(0)
NaN     == [n |-> 0, d |-> 0]
Inf     == [n |-> 1, d |-> 0]
IsNaN(x)    == x.d = 0 /\ x.n = 0

\* IEEE addition: NaN is absorbing, Inf + -Inf = NaN
RAdd(x, y) ==
    IF IsNaN(x) \/ IsNaN(y) THEN NaN
    ELSE IF x.d = 0 /\ y.d = 0 THEN (IF x.n = y.n THEN x ELSE NaN)
    ELSE IF x.d = 0 THEN x
    ELSE IF y.d = 0 THEN y
    ELSE LET g == GCD(x.d, y.d)
         IN  Rat(x.n * (y.d \div g) + y.n * (x.d \div g), (x.d \div g) * y.d)

RNeg(x) == [n |-> -x.n, d |-> x.d]
RSub(x, y) == RAdd(x, RNeg(y))

\* IEEE multiplication: 0 * Inf = NaN
RMul(x, y) ==
    IF IsNaN(x) \/ IsNaN(y) THEN NaN
    ELSE IF x.d = 0 \/ y.d = 0
         THEN (IF x.n = 0 \/ y.n = 0 THEN NaN
               ELSE [n |-> (IF (x.n > 0) = (y.n > 0) THEN 1 ELSE -1), d |-> 0])
    ELSE LET g1 == GCD(Abs(x.n), y.d)
             g2 == GCD(Abs(y.n), x.d)
         IN  Rat((x.n \div g1) * (y.n \div g2), (x.d \div g2) * (y.d \div g1))

\* numpy/pandas float division: 0/0 = NaN, x/0 = +-Inf, x/Inf = 0, Inf/Inf = NaN
RDiv(x, y) ==
    IF IsNaN(x) \/ IsNaN(y) THEN NaN
    ELSE IF y.d = 0 THEN (IF x.d = 0 THEN NaN ELSE Zero)
    ELSE IF x.d = 0
         THEN [n |-> (IF (x.n > 0) = (y.n >= 0) THEN 1 ELSE -1), d |-> 0]
    ELSE IF y.n = 0
         THEN [n |-> (IF x.n > 0 THEN 1 ELSE IF x.n < 0 THEN -1 ELSE 0), d |-> 0]
    ELSE LET g1 == GCD(Abs(x.n), Abs(y.n))
             g2 == GCD(x.d, y.d)
         IN  Rat((x.n \div g1) * (y.d \div g2), (x.d \div g2) * (y.n \div g1))

\* comparisons; every comparison with NaN is False
RLt(x, y) ==
    IF IsNaN(x) \/ IsNaN(y) THEN FALSE
    ELSE IF x.d = 0 /\ y.d = 0 THEN x.n < y.n
    ELSE IF x.d = 0 THEN x.n < 0
    ELSE IF y.d = 0 THEN y.n > 0
    ELSE LET g == GCD(x.d, y.d) IN x.n * (y.d \div g) < y.n * (x.d \div g)

REq(x, y) == ~IsNaN(x) /\ ~IsNaN(y) /\ x = y
RLe(x, y) == RLt(x, y) \/ REq(x, y)
RGt(x, y) == RLt(y, x)
RGe(x, y) == RLe(y, x)
\* Python's !=, True when either side is NaN
RNe(x, y) == ~REq(x, y)

\* int(x // y) for finite x and y > 0
FloorDiv(x, y) == (x.n * y.d) \div (x.d * y.n)

RECURSIVE SumSeq(_)
SumSeq(s) == IF s = <<>> THEN Zero ELSE RAdd(s[1], SumSeq(Tail(s)))

(***************************************************************************)
(* calculate_rsi                                                           *)
(***************************************************************************)
\* data['Close'].diff(): NaN on the first bar
Diff(close, k) == IF k = 1 THEN NaN ELSE RSub(Num(close[k]), Num(close[k - 1]))

\* delta.where(delta > 0, 0).fillna(0)
Gain(close, k) ==
    LET delta == Diff(close, k) IN IF RGt(delta, Zero) THEN delta ELSE Zero

\* (-delta.where(delta > 0, 0)).fillna(0), the condition copied from gain
Loss_CopiedCondition(close, k) ==
    LET delta == Diff(close, k) IN IF RGt(delta, Zero) THEN RNeg(delta) ELSE Zero

\* (-delta.where(delta < 0, 0)).fillna(0)
Loss(close, k) ==
    LET delta == Diff(close, k) IN IF RLt(delta, Zero) THEN RNeg(delta) ELSE Zero

\* first bar of the trailing window of bar k: rolling(window=p, min_periods=1)
WindowStart(k, p) == IF k - p + 1 < 1 THEN 1 ELSE k - p + 1

\* s.rolling(window=p, min_periods=1).mean() at bar k
RollingMean(s, k, p) ==
    LET lo == WindowStart(k, p)
    IN  RDiv(SumSeq(SubSeq(s, lo, k)), Num(k - lo + 1))

\* the RSI column without the fillna(50)
FillNeutral_Missing(x) == x

\* data['RSI'].fillna(50)
FillNeutral(x) == IF IsNaN(x) THEN Num(50) ELSE x

\* the RSI column calculate_rsi writes
calculate_rsi(close, p) ==
    LET gain == [k \in 1..Len(close) |-> Gain(close, k)]
        loss == [k \in 1..Len(close) |-> Loss(close, k)]
    IN  [k \in 1..Len(close) |->
            LET avg_gain == RollingMean(gain, k, p)
                avg_loss == RollingMean(loss, k, p)
                rs       == RDiv(avg_gain, avg_loss)
            IN  FillNeutral(RSub(Num(100), RDiv(Num(100), RAdd(Num(1), rs))))]

(***************************************************************************)
(* generate_signals                                                        *)
(***************************************************************************)
\* data['RSI'].shift(1, fill_value=0)
Shift_FillZero(rsi, k) == IF k = 1 THEN Zero ELSE rsi[k - 1]

\* data['RSI'].shift(1): NaN on the first bar
Shift(rsi, k) == IF k = 1 THEN NaN ELSE rsi[k - 1]

\* (data['RSI'] > rsi_oversold) & (data['RSI'].shift(1) < rsi_oversold)
buy_signals_Strict(rsi, k, oversold) ==
    RGt(rsi[k], Num(oversold)) /\ RLt(Shift(rsi, k), Num(oversold))

\* (data['RSI'] > rsi_oversold) & (data['RSI'].shift(1) <= rsi_oversold)
buy_signals(rsi, k, oversold) ==
    RGt(rsi[k], Num(oversold)) /\ RLe(Shift(rsi, k), Num(oversold))

\* data['RSI'] < rsi_overbought: every bar below the level, not the crossing
sell_signals_Level(rsi, k, overbought) == RLt(rsi[k], Num(overbought))

\* (data['RSI'] < rsi_overbought) & (data['RSI'].shift(1) >= rsi_overbought)
sell_signals(rsi, k, overbought) ==
    RLt(rsi[k], Num(overbought)) /\ RGe(Shift(rsi, k), Num(overbought))

\* the Signal column: 0, then 1 where buy_signals, then -1 where sell_signals
generate_signals(rsi, overbought, oversold) ==
    [k \in 1..Len(rsi) |->
        IF sell_signals(rsi, k, overbought) THEN -1
        ELSE IF buy_signals(rsi, k, oversold) THEN 1
        ELSE 0]

(***************************************************************************)
(* calculate_performance_metrics: the reductions                           *)
(***************************************************************************)
RMax(x, y) == IF RLt(x, y) THEN y ELSE x

\* s.expanding(min_periods=1).max() at bar k (running maximum, bar k included)
RECURSIVE ExpandingMax(_, _)
ExpandingMax(s, k) == IF k = 1 THEN s[1] ELSE RMax(ExpandingMax(s, k - 1), s[k])

\* (value - cumulative_max) / cumulative_max at bar k
RelativeTo(x, m) == RDiv(RSub(x, m), m)
Drawdown(s, k) == RelativeTo(s[k], ExpandingMax(s, k))

\* the smaller of two values, a NaN being skipped (Series.min skips NaN)
RMin(x, y) == IF IsNaN(x) THEN y ELSE IF IsNaN(y) THEN x ELSE IF RLt(x, y) THEN x ELSE y

\* Series.min(): the smallest value that is not NaN, NaN when there is none
RECURSIVE MinUpTo(_, _)
MinUpTo(s, k) == IF k = 0 THEN NaN ELSE RMin(s[k], MinUpTo(s, k - 1))

\* the last bar's value reported in place of the smallest
SeriesMin_Last(s) == s[Len(s)]

SeriesMin(s) == MinUpTo(s, Len(s))

\* Series.mean(): NaN for an empty series
Mean(s) == RDiv(SumSeq(s), Num(Len(s)))

\* (x - mean) ** 2
SquaredDeviation(x, m) == RMul(RSub(x, m), RSub(x, m))

SumSquaredDeviations(s, m) ==
    SumSeq([k \in 1..Len(s) |-> SquaredDeviation(s[k], m)])

\* Series.var(ddof=1): NaN for fewer than two values
Variance(s) ==
    IF Len(s) < 2 THEN NaN
    ELSE RDiv(SumSquaredDeviations(s, Mean(s)), Num(Len(s) - 1))

\* s.std() * np.sqrt(252), kept as its square: the value is sqrt(.sq)
Volatility(s) == [sq |-> RMul(Variance(s), Num(252))]

\* risk_free_rate = 0.01
risk_free_rate == Rat(1, 100)

\* a quotient num / sqrt(sq); NaN when either part is NaN
Surd(num, sq) ==
    IF IsNaN(num) \/ IsNaN(sq) THEN [num |-> NaN, sq |-> NaN]
    ELSE [num |-> num, sq |-> sq]

\* the quotient taken whatever the volatility is
SharpeRatio_Unguarded(s) ==
    Surd(RSub(RMul(Mean(s), Num(252)), risk_free_rate), Volatility(s).sq)

\* (returns.mean() * 252 - risk_free_rate) / volatility if volatility != 0 else 0
SharpeRatio(s) ==
    LET vol == Volatility(s)
    IN  IF RNe(vol.sq, Zero)
        THEN Surd(RSub(RMul(Mean(s), Num(252)), risk_free_rate), vol.sq)
        ELSE [num |-> Zero, sq |-> Num(1)]

\* data['Trades'].sum(): a Sell cancels a Buy
RECURSIVE AbsSum_Signed(_)
AbsSum_Signed(s) == IF s = <<>> THEN 0 ELSE s[1] + AbsSum_Signed(Tail(s))

\* data['Trades'].abs().sum()
RECURSIVE AbsSum(_)
AbsSum(s) == IF s = <<>> THEN 0 ELSE Abs(s[1]) + AbsSum(Tail(s))

\* buy-and-hold of whole shares only, the rest of the capital staying idle
BuyAndHoldValue_WholeShares(close, capital) ==
    [k \in 1..Len(close) |->
        LET shares == capital \div close[1]
        IN  Num(shares * close[k] + (capital - shares * close[1]))]

\* initial_capital * (data['Close'] / data['Close'].iloc[0])
BuyAndHoldValue(close, capital) ==
    [k \in 1..Len(close) |-> RMul(Num(capital), RDiv(Num(close[k]), Num(close[1])))]

\* data['Close'].pct_change().fillna(0)
PctChange(close) ==
    [k \in 1..Len(close) |->
        IF k = 1 THEN Zero
        ELSE RDiv(RSub(Num(close[k]), Num(close[k - 1])), Num(close[k - 1]))]

\* (series.iloc[-1] / initial_capital) - 1
TotalReturn(values, capital) ==
    RSub(RDiv(values[Len(values)], Num(capital)), Num(1))

\* the metrics dictionary, before its values are formatted for display
PerformanceMetrics(fr, close, capital) ==
    LET pv   == fr.PortfolioValue
        bh   == BuyAndHoldValue(close, capital)
        bhr  == PctChange(close)
    IN  [portfolio_value    |-> pv[Len(pv)],
         total_return       |-> TotalReturn(pv, capital),
         max_drawdown       |-> SeriesMin([k \in 1..Len(pv) |-> Drawdown(pv, k)]),
         volatility         |-> Volatility(fr.StrategyDailyReturn),
         sharpe_ratio       |-> SharpeRatio(fr.StrategyDailyReturn),
         fees_paid          |-> fr.TotalFees[Len(fr.TotalFees)],
         number_of_trades   |-> AbsSum(fr.Trades),
         bh_portfolio_value |-> bh[Len(bh)],
         bh_total_return    |-> TotalReturn(bh, capital),
         bh_max_drawdown    |-> SeriesMin([k \in 1..Len(bh) |-> Drawdown(bh, k)]),
         bh_volatility      |-> Volatility(bhr),
         bh_sharpe_ratio    |-> SharpeRatio(bhr),
         bh_number_of_trades |-> "N/A",
         bh_fees_paid       |-> "N/A"]

(***************************************************************************)
(* The program state.                                                      *)
(***************************************************************************)
VARIABLES
    Close,                \* data['Close'], the input price series
    RSI,                  \* data['RSI'], <<>> until calculate_rsi wrote it
    Signal,               \* data['Signal'], <<>> until generate_signals wrote it
    period,               \* calculate_rsi's period
    rsi_overbought,       \* generate_signals' thresholds
    rsi_oversold,
    initial_capital,      \* backtest_strategy's parameters
    fee_percentage,
    entry,                \* the function the caller invokes first
    until,                \* the function the caller invokes last
    run,                  \* 1 for the first invocation, 2 for the repeated one
    pc,                   \* the stage about to execute
    i,                    \* backtest_strategy's loop index (1-based)
    cash,                 \* locals of backtest_strategy
    holdings,
    total_fees,
    portfolio_values,
    positions,
    trades,
    daily_returns,
    prev_portfolio_value,
    frame,                \* the columns backtest_strategy returns
    metrics,              \* the dictionary calculate_performance_metrics returns
    raised,               \* the exception that ended the invocation, "" for none
    first,                \* what the first invocation returned
    capital_entry,        \* the texts of BacktestApp's entry widgets
    fee_entry,
    overbought_entry,
    oversold_entry,
    metrics_frame,        \* the metrics table the window shows
    canvas,               \* the plot the window shows
    dialog,               \* the message box the last Run Backtest click opened
    clicks,               \* the number of Run Backtest clicks handled
    pair                  \* two invocations of backtest_strategy in progress at once

params == <<Close, period, rsi_overbought, rsi_oversold, initial_capital,
            fee_percentage, entry, until>>
locals == <<i, cash, holdings, total_fees, portfolio_values, positions, trades,
            daily_returns, prev_portfolio_value>>
entries == <<capital_entry, fee_entry, overbought_entry, oversold_entry>>
window == <<entries, metrics_frame, canvas, dialog, clicks>>
vars   == <<params, RSI, Signal, run, pc, locals, frame, metrics, raised, first,
            window, pair>>

\* def calculate_rsi(data, period=14)
DefaultPeriod == 14

\* starting capitals (validated positive by run_backtest)
Capitals == {1, 8}
\* fee rates (validated non-negative by run_backtest)
FeeRates == {Zero, Rat(1, 4)}
\* <<overbought, oversold>> pairs; the last one violates oversold < overbought
Thresholds == {<<70, 30>>, <<75, 50>>, <<30, 70>>}
\* the default period and one short enough for the window to slide
Periods == {3, DefaultPeriod}

SeqsUpTo(S, n) == UNION {[1..m -> S] : m \in 0..n}

NoFrame == [PortfolioValue |-> <<>>, TotalFees |-> <<>>, Positions |-> <<>>,
            Trades |-> <<>>, StrategyDailyReturn |-> <<>>]
NoMetrics == [portfolio_value |-> NaN]
NoOutput == [RSI |-> <<>>, Signal |-> <<>>, frame |-> NoFrame,
             metrics |-> NoMetrics, raised |-> ""]

ValidThresholds == 0 < rsi_oversold /\ rsi_oversold < rsi_overbought /\ rsi_overbought < 100

\* self.canvas = None, self.metrics_frame = None
None == [displayed |-> FALSE]

\* no message box was opened
NoDialog == [title |-> "", message |-> ""]

\* no window is open: the functions are called directly
NoWindow ==
    /\ capital_entry = ""
    /\ fee_entry = ""
    /\ overbought_entry = ""
    /\ oversold_entry = ""
    /\ metrics_frame = None
    /\ canvas = None
    /\ dialog = NoDialog
    /\ clicks = 0

\* one invocation at a time
NoPair == pair = <<>>

InitLocals ==
    /\ i = 1
    /\ cash = Zero
    /\ holdings = 0
    /\ total_fees = Zero
    /\ portfolio_values = <<>>
    /\ positions = <<>>
    /\ trades = <<>>
    /\ daily_returns = <<>>
    /\ prev_portfolio_value = Zero

\* the caller runs the whole pipeline on a fetched price series
InitPipeline ==
    /\ entry = "calculate_rsi"
    /\ Close \in SeqsUpTo(Prices, MaxLen)
    /\ period \in Periods
    /\ \E t \in Thresholds : rsi_overbought = t[1] /\ rsi_oversold = t[2]
    /\ RSI = <<>>
    /\ Signal = <<>>

\* the caller hands backtest_strategy a frame whose Signal column it built itself
InitDirect ==
    /\ entry = "backtest_strategy"
    /\ Close \in SeqsUpTo(DirectPrices, MaxDirectLen)
    /\ period = DefaultPeriod
    /\ rsi_overbought = 70
    /\ rsi_oversold = 30
    /\ RSI = <<>>
    /\ Signal \in [1..Len(Close) -> {-1, 0, 1}]

\* the five-day series 100, 90, 80, 95, 110 run through the whole pipeline with
\* the default period, capital 10000, no fee and the thresholds 70 / 30
InitScenario ==
    /\ entry = "calculate_rsi"
    /\ until = "backtest_strategy"
    /\ Close = <<100, 90, 80, 95, 110>>
    /\ period = DefaultPeriod
    /\ rsi_overbought = 70
    /\ rsi_oversold = 30
    /\ initial_capital = 10000
    /\ fee_percentage = Zero
    /\ RSI = <<>>
    /\ Signal = <<>>

Init ==
    /\ \/ /\ InitPipeline \/ InitDirect
          /\ until = "calculate_performance_metrics"
          /\ initial_capital \in Capitals
          /\ fee_percentage \in FeeRates
       \/ InitScenario
    /\ run = 1
    /\ pc = entry
    /\ InitLocals
    /\ frame = NoFrame
    /\ metrics = NoMetrics
    /\ raised = ""
    /\ first = NoOutput
    /\ NoWindow
    /\ NoPair

(***************************************************************************)
(* calculate_rsi and generate_signals write their column into the frame    *)
(* they were given and return that frame.                                  *)
(***************************************************************************)
CalculateRsi ==
    /\ pc = "calculate_rsi"
    /\ RSI' = calculate_rsi(Close, period)
    /\ pc' = "generate_signals"
    /\ UNCHANGED <<params, Signal, run, locals, frame, metrics, raised, first, window, pair>>

GenerateSignals ==
    /\ pc = "generate_signals"
    /\ Signal' = generate_signals(RSI, rsi_overbought, rsi_oversold)
    /\ pc' = "backtest_strategy"
    /\ UNCHANGED <<params, RSI, run, locals, frame, metrics, raised, first, window, pair>>

(***************************************************************************)
(* backtest_strategy                                                       *)
(***************************************************************************)
\* cash kept in a module-level variable that only the first call initialises
StartCash_Carried(capital) == IF run = 1 THEN Num(capital) ELSE cash

\* cash = initial_capital
StartCash(capital) == Num(capital)

\* holdings = 0
StartHoldings == 0

\* int(cash // price)
Shares(c, price) == FloorDiv(c, price)

\* "if shares:", which also takes a negative share count for affordable
CanBuy_Truthy(shares) == shares # 0

\* "if shares >= 0", which executes a Buy of zero shares
CanBuy_AllowZero(shares) == shares >= 0

\* if shares > 0
CanBuy(shares) == shares > 0

\* holdings += shares
HoldingsAfterBuy(h, shares) == h + shares

\* a fee on one share's price, however many shares are traded
Fee_OneShare(shares, price, rate) == RMul(price, rate)

\* shares * price * fee_percentage
Fee(shares, price, rate) == RMul(RMul(Num(shares), price), rate)

\* a buy that pays for the shares but never the fee
CashAfterBuy_FeeNotCharged(c, shares, price, fee) == RSub(c, RMul(Num(shares), price))

\* a buy that takes the fee off the cash twice
CashAfterBuy_FeeTwice(c, shares, price, fee) ==
    RSub(c, RAdd(RMul(Num(shares), price), RAdd(fee, fee)))

\* cash -= shares * price + fee
CashAfterBuy(c, shares, price, fee) == RSub(c, RAdd(RMul(Num(shares), price), fee))

\* a sale that credits the fee instead of deducting it
CashAfterSell_FeeCredited(c, h, price, fee) == RAdd(c, RAdd(RMul(Num(h), price), fee))

\* cash += holdings * price - fee
CashAfterSell(c, h, price, fee) == RAdd(c, RSub(RMul(Num(h), price), fee))

\* a day without a trade recorded as Flat whatever the day before was
PreviousPosition_AlwaysFlat(pos) == 0

\* a day without a trade recorded as Long whatever the day before was
PreviousPosition_AlwaysLong(pos) == 1

\* positions[-1] if positions else 0
PreviousPosition(pos) == IF pos # <<>> THEN pos[Len(pos)] ELSE 0

\* the portfolio valued at its cash alone
PortfolioValue_CashOnly(c, h, price) == c

\* the portfolio valued at its shares alone
PortfolioValue_SharesOnly(c, h, price) == RMul(Num(h), price)

\* cash + holdings * price
PortfolioValue(c, h, price) == RAdd(c, RMul(Num(h), price))

\* the return computed without the guard on a zero previous value
DailyReturn_Unguarded(value, prev) == RDiv(RSub(value, prev), prev)

\* (portfolio_value - prev) / prev if prev != 0 else 0
DailyReturn(value, prev) ==
    IF RNe(prev, Zero) THEN RDiv(RSub(value, prev), prev) ELSE Zero

\* the day traded at the close of the day after it
Price_NextClose(k) == Num(Close[IF k < Len(Close) THEN k + 1 ELSE k])

\* float(data['Close'].iloc[i])
Price(k) == Num(Close[k])

BacktestStart ==
    /\ pc = "backtest_strategy"
    /\ i' = 1
    /\ cash' = StartCash(initial_capital)
    /\ holdings' = StartHoldings
    /\ total_fees' = Zero
    /\ portfolio_values' = <<>>
    /\ positions' = <<>>
    /\ trades' = <<>>
    /\ daily_returns' = <<>>
    /\ prev_portfolio_value' = Num(initial_capital)
    /\ pc' = "loop"
    /\ UNCHANGED <<params, RSI, Signal, run, frame, metrics, raised, first, window, pair>>

\* the end of one loop iteration: the day's records are appended
EndOfDay(position, trade) ==
    LET portfolio_value == PortfolioValue(cash', holdings', Price(i))
    IN  /\ positions' = Append(positions, position)
        /\ portfolio_values' = Append(portfolio_values, portfolio_value)
        /\ trades' = Append(trades, trade)
        /\ daily_returns' =
               Append(daily_returns, DailyReturn(portfolio_value, prev_portfolio_value))
        /\ prev_portfolio_value' = portfolio_value
        /\ i' = i + 1
        /\ UNCHANGED <<params, RSI, Signal, run, pc, frame, metrics, raised, first, window, pair>>

InLoop == pc = "loop" /\ i <= Len(Close)

\* signal == 1 and holdings == 0, shares > 0
BuyDay ==
    /\ InLoop
    /\ Signal[i] = 1 /\ holdings = 0
    /\ LET shares == Shares(cash, Price(i))
           fee    == Fee(shares, Price(i), fee_percentage)
       IN  /\ CanBuy(shares)
           /\ cash' = CashAfterBuy(cash, shares, Price(i), fee)
           /\ holdings' = HoldingsAfterBuy(holdings, shares)
           /\ total_fees' = RAdd(total_fees, fee)
    /\ EndOfDay(1, 1)

\* signal == 1 and holdings == 0, but not one share is affordable
UnaffordableDay ==
    /\ InLoop
    /\ Signal[i] = 1 /\ holdings = 0
    /\ ~CanBuy(Shares(cash, Price(i)))
    /\ UNCHANGED <<cash, holdings, total_fees>>
    /\ EndOfDay(PreviousPosition(positions), 0)

\* signal == -1 and holdings > 0
SellDay ==
    /\ InLoop
    /\ ~(Signal[i] = 1 /\ holdings = 0)
    /\ Signal[i] = -1 /\ holdings > 0
    /\ LET fee == Fee(holdings, Price(i), fee_percentage)
       IN  /\ cash' = CashAfterSell(cash, holdings, Price(i), fee)
           /\ holdings' = 0
           /\ total_fees' = RAdd(total_fees, fee)
    /\ EndOfDay(0, -1)

\* no trade: the previous position is maintained
MaintainDay ==
    /\ InLoop
    /\ ~(Signal[i] = 1 /\ holdings = 0)
    /\ ~(Signal[i] = -1 /\ holdings > 0)
    /\ UNCHANGED <<cash, holdings, total_fees>>
    /\ EndOfDay(PreviousPosition(positions), 0)

\* the loop is over: the lists become columns of the copied frame
BacktestReturn ==
    /\ pc = "loop"
    /\ i > Len(Close)
    /\ frame' = [PortfolioValue      |-> portfolio_values,
                 TotalFees           |-> [k \in 1..Len(Close) |-> total_fees],
                 Positions           |-> positions,
                 Trades              |-> trades,
                 StrategyDailyReturn |-> daily_returns]
    /\ pc' = IF until = "backtest_strategy" THEN "returned"
             ELSE "calculate_performance_metrics"
    /\ UNCHANGED <<params, RSI, Signal, run, locals, metrics, raised, first, window, pair>>

(***************************************************************************)
(* calculate_performance_metrics                                           *)
(***************************************************************************)
\* data['Portfolio Value'].iloc[-1] on a frame without rows
MetricsRaise ==
    /\ pc = "calculate_performance_metrics"
    /\ Len(frame.PortfolioValue) = 0
    /\ raised' = "IndexError"
    /\ pc' = "raised"
    /\ UNCHANGED <<params, RSI, Signal, run, locals, frame, metrics, first, window, pair>>

MetricsReturn ==
    /\ pc = "calculate_performance_metrics"
    /\ Len(frame.PortfolioValue) > 0
    /\ metrics' = PerformanceMetrics(frame, Close, initial_capital)
    /\ pc' = "done"
    /\ UNCHANGED <<params, RSI, Signal, run, locals, frame, raised, first, window, pair>>

(***************************************************************************)
(* The caller invokes the same functions once more, on the same frame      *)
(* object and with the same parameters.                                    *)
(***************************************************************************)
Output == [RSI |-> RSI, Signal |-> Signal, frame |-> frame,
           metrics |-> metrics, raised |-> raised]

RunAgain ==
    /\ pc \in {"done", "raised"}
    /\ run = 1
    /\ first' = Output
    /\ run' = 2
    /\ pc' = entry
    /\ frame' = NoFrame
    /\ metrics' = NoMetrics
    /\ raised' = ""
    /\ UNCHANGED <<params, RSI, Signal, locals, window, pair>>

\* one invocation of the functions
Next ==
    \/ CalculateRsi
    \/ GenerateSignals
    \/ BacktestStart
    \/ BuyDay
    \/ UnaffordableDay
    \/ SellDay
    \/ MaintainDay
    \/ BacktestReturn
    \/ MetricsRaise
    \/ MetricsReturn

Spec == Init /\ [][Next]_vars

\* the invocation followed by a second one on the same frame
NextTwice ==
    \/ CalculateRsi
    \/ GenerateSignals
    \/ BacktestStart
    \/ BuyDay
    \/ UnaffordableDay
    \/ SellDay
    \/ MaintainDay
    \/ BacktestReturn
    \/ MetricsRaise
    \/ MetricsReturn
    \/ RunAgain

SpecTwice == Init /\ [][NextTwice]_vars

(***************************************************************************)
(* The pipeline functions of Main.py. calculate_rsi and generate_signals   *)
(* are the same as above; backtest_strategy keeps no position flags and no *)
(* daily returns and writes only two columns.                              *)
(***************************************************************************)
InitMain ==
    /\ InitPipeline \/ InitDirect
    /\ until = "calculate_performance_metrics"
    /\ initial_capital \in Capitals
    /\ fee_percentage \in FeeRates
    /\ run = 1
    /\ pc = entry
    /\ InitLocals
    /\ frame = NoFrame
    /\ metrics = NoMetrics
    /\ raised = ""
    /\ first = NoOutput
    /\ NoWindow
    /\ NoPair

MainBacktestStart ==
    /\ pc = "backtest_strategy"
    /\ i' = 1
    /\ cash' = StartCash(initial_capital)
    /\ holdings' = StartHoldings
    /\ total_fees' = Zero
    /\ portfolio_values' = <<>>
    /\ trades' = <<>>
    /\ pc' = "Main.loop"
    /\ UNCHANGED <<params, RSI, Signal, run, positions, daily_returns,
                   prev_portfolio_value, frame, metrics, raised, first, window, pair>>

\* portfolio_values.append(cash + holdings * price); trades.append(trade)
MainEndOfDay(trade) ==
    /\ portfolio_values' =
           Append(portfolio_values, PortfolioValue(cash', holdings', Price(i)))
    /\ trades' = Append(trades, trade)
    /\ i' = i + 1
    /\ UNCHANGED <<params, RSI, Signal, run, pc, positions, daily_returns,
                   prev_portfolio_value, frame, metrics, raised, first, window, pair>>

MainInLoop == pc = "Main.loop" /\ i <= Len(Close)

\* signal == 1 and holdings == 0, shares > 0
MainBuyDay ==
    /\ MainInLoop
    /\ Signal[i] = 1 /\ holdings = 0
    /\ LET shares == Shares(cash, Price(i))
           fee    == Fee(shares, Price(i), fee_percentage)
       IN  /\ CanBuy(shares)
           /\ cash' = CashAfterBuy(cash, shares, Price(i), fee)
           /\ holdings' = HoldingsAfterBuy(holdings, shares)
           /\ total_fees' = RAdd(total_fees, fee)
    /\ MainEndOfDay(1)

\* signal == -1 and holdings > 0
MainSellDay ==
    /\ MainInLoop
    /\ ~(Signal[i] = 1 /\ holdings = 0)
    /\ Signal[i] = -1 /\ holdings > 0
    /\ LET fee == Fee(holdings, Price(i), fee_percentage)
       IN  /\ cash' = CashAfterSell(cash, holdings, Price(i), fee)
           /\ holdings' = 0
           /\ total_fees' = RAdd(total_fees, fee)
    /\ MainEndOfDay(-1)

\* neither branch trades: trade keeps its initial 0
MainNoTradeDay ==
    /\ MainInLoop
    /\ \/ Signal[i] = 1 /\ holdings = 0 /\ ~CanBuy(Shares(cash, Price(i)))
       \/ ~(Signal[i] = 1 /\ holdings = 0) /\ ~(Signal[i] = -1 /\ holdings > 0)
    /\ UNCHANGED <<cash, holdings, total_fees>>
    /\ MainEndOfDay(0)

\* data['Portfolio Value'] = portfolio_values; data['Trades'] = trades
MainBacktestReturn ==
    /\ pc = "Main.loop"
    /\ i > Len(Close)
    /\ frame' = [PortfolioValue |-> portfolio_values, Trades |-> trades]
    /\ pc' = "calculate_performance_metrics"
    /\ UNCHANGED <<params, RSI, Signal, run, locals, metrics, raised, first, window, pair>>

\* data['Portfolio Value'].iloc[-1] on a frame without rows
MainMetricsIndexError ==
    /\ pc = "calculate_performance_metrics"
    /\ Len(frame.PortfolioValue) = 0
    /\ raised' = "IndexError"
    /\ pc' = "raised"
    /\ UNCHANGED <<params, RSI, Signal, run, locals, frame, metrics, first, window, pair>>

\* data['Total Fees'].iloc[-1] on a frame that has no such column
MainMetricsKeyError ==
    /\ pc = "calculate_performance_metrics"
    /\ Len(frame.PortfolioValue) > 0
    /\ "TotalFees" \notin DOMAIN frame
    /\ raised' = "KeyError"
    /\ pc' = "raised"
    /\ UNCHANGED <<params, RSI, Signal, run, locals, frame, metrics, first, window, pair>>

NextMain ==
    \/ CalculateRsi
    \/ GenerateSignals
    \/ MainBacktestStart
    \/ MainBuyDay
    \/ MainSellDay
    \/ MainNoTradeDay
    \/ MainBacktestReturn
    \/ MainMetricsIndexError
    \/ MainMetricsKeyError

SpecMain == InitMain /\ [][NextMain]_vars

(***************************************************************************)
(* BacktestApp: the window and its Run Backtest handler, as App.py and as  *)
(* Main.py define it. The handler runs the pipeline stages above in turn;  *)
(* the window handles no other event until the handler has returned.       *)
(***************************************************************************)
MaxClicks == 3

\* texts the user types into the four entries
CapitalTexts == {"8", "1", "0", "abc"}
FeeTexts == {"25", "0", "-1"}
OverboughtTexts == {"70", "100"}
OversoldTexts == {"30", "70", "0"}

\* the frames get_historical_data returns: no rows, or five closes
FetchedSeries == {<<>>, <<2, 1, 2, 4, 2>>}

\* float(text) is the number a numeric text denotes and raises ValueError on
\* any other text
Numerals ==
    ("-1" :> -1) @@ ("0" :> 0) @@ ("1" :> 1) @@ ("8" :> 8) @@ ("25" :> 25) @@
    ("30" :> 30) @@ ("70" :> 70) @@ ("100" :> 100)
IsNumeric(text) == text \in DOMAIN Numerals
float(text) == Numerals[text]

\* the message of the ValueError the try block of run_backtest raises, ""
\* when it raises none
InputError ==
    IF ~IsNumeric(capital_entry) THEN "could not convert string to float"
    ELSE IF float(capital_entry) <= 0 THEN "Starting capital must be positive."
    ELSE IF ~IsNumeric(fee_entry) THEN "could not convert string to float"
    ELSE IF RLt(Rat(float(fee_entry), 100), Zero)
         THEN "Fee percentage cannot be negative."
    ELSE IF ~IsNumeric(overbought_entry) THEN "could not convert string to float"
    ELSE IF ~(0 < float(overbought_entry) /\ float(overbought_entry) < 100)
         THEN "RSI Overbought level must be between 0 and 100."
    ELSE IF ~IsNumeric(oversold_entry) THEN "could not convert string to float"
    ELSE IF ~(0 < float(oversold_entry) /\ float(oversold_entry) < 100)
         THEN "RSI Oversold level must be between 0 and 100."
    ELSE IF float(oversold_entry) >= float(overbought_entry)
         THEN "RSI Oversold level must be less than RSI Overbought level."
    ELSE ""

\* the window with texts typed into its entries, before the first click; the
\* handler's locals are not bound yet
InitApp ==
    /\ entry \in {"App.run_backtest", "Main.run_backtest"}
    /\ until = "calculate_performance_metrics"
    /\ capital_entry \in CapitalTexts
    /\ fee_entry \in FeeTexts
    /\ overbought_entry \in OverboughtTexts
    /\ oversold_entry \in OversoldTexts
    /\ metrics_frame = None
    /\ canvas = None
    /\ dialog = NoDialog
    /\ clicks = 0
    /\ pc = "idle"
    /\ Close = <<>>
    /\ RSI = <<>>
    /\ Signal = <<>>
    /\ period = DefaultPeriod
    /\ rsi_overbought = 70
    /\ rsi_oversold = 30
    /\ initial_capital = 1
    /\ fee_percentage = Zero
    /\ run = 1
    /\ InitLocals
    /\ frame = NoFrame
    /\ metrics = NoMetrics
    /\ raised = ""
    /\ first = NoOutput
    /\ NoPair

\* the user retypes the entries between two clicks
UserEdits ==
    /\ pc = "idle"
    /\ 0 < clicks /\ clicks < MaxClicks
    /\ capital_entry' \in CapitalTexts
    /\ fee_entry' \in FeeTexts
    /\ overbought_entry' \in OverboughtTexts
    /\ oversold_entry' \in OversoldTexts
    /\ entries' # entries
    /\ UNCHANGED <<params, RSI, Signal, run, pc, locals, frame, metrics, raised, first,
                   metrics_frame, canvas, dialog, clicks, pair>>

\* App.py's run_backtest up to the first pipeline stage: the parameter checks,
\* the fetch and the empty-data guard
RunBacktest ==
    /\ entry = "App.run_backtest"
    /\ pc = "idle"
    /\ clicks < MaxClicks
    /\ clicks' = clicks + 1
    /\ IF InputError # ""
       THEN /\ dialog' = [title |-> "Input Error", message |-> InputError]
            /\ UNCHANGED <<params, RSI, Signal, pc>>
       ELSE /\ initial_capital' = float(capital_entry)
            /\ fee_percentage' = Rat(float(fee_entry), 100)
            /\ rsi_overbought' = float(overbought_entry)
            /\ rsi_oversold' = float(oversold_entry)
            /\ period' = DefaultPeriod
            /\ Close' \in FetchedSeries
            /\ RSI' = <<>>
            /\ Signal' = <<>>
            /\ IF Close' = <<>>
               THEN /\ dialog' = [title |-> "No Data",
                                  message |-> "No data available for the selected parameters."]
                    /\ pc' = "idle"
               ELSE /\ dialog' = NoDialog
                    /\ pc' = "calculate_rsi"
            /\ UNCHANGED <<entry, until>>
    /\ UNCHANGED <<run, locals, frame, metrics, raised, first, entries, metrics_frame,
                   canvas, pair>>

\* what plot_results draws
Plot == [Close |-> Close, RSI |-> RSI, Trades |-> frame.Trades,
         PortfolioValue |-> frame.PortfolioValue,
         BuyAndHold |-> BuyAndHoldValue(Close, initial_capital),
         overbought |-> rsi_overbought, oversold |-> rsi_oversold]

\* self.display_metrics(metrics); self.plot_results(...): the handler returns
DisplayResults ==
    /\ entry = "App.run_backtest"
    /\ pc = "done"
    /\ metrics_frame' = metrics
    /\ canvas' = Plot
    /\ pc' = "idle"
    /\ UNCHANGED <<params, RSI, Signal, run, locals, frame, metrics, raised, first,
                   entries, dialog, clicks, pair>>

\* Main.py's run_backtest: the second definition of that name replaces the
\* first; its try block reads the unbound name ticker before it fetches, and
\* its except clause reports the NameError
MainRunBacktest ==
    /\ entry = "Main.run_backtest"
    /\ pc = "idle"
    /\ clicks < MaxClicks
    /\ clicks' = clicks + 1
    /\ dialog' = [title |-> "Backtest Error", message |-> "name 'ticker' is not defined"]
    /\ UNCHANGED <<params, RSI, Signal, run, pc, locals, frame, metrics, raised, first,
                   entries, metrics_frame, canvas, pair>>

NextApp ==
    \/ UserEdits
    \/ RunBacktest
    \/ CalculateRsi
    \/ GenerateSignals
    \/ BacktestStart
    \/ BuyDay
    \/ UnaffordableDay
    \/ SellDay
    \/ MaintainDay
    \/ BacktestReturn
    \/ MetricsReturn
    \/ DisplayResults
    \/ MainRunBacktest

SpecApp == InitApp /\ [][NextApp]_vars

(***************************************************************************)
(* Two invocations of backtest_strategy in progress at once, their loop    *)
(* iterations interleaved in any order. What the function keeps between    *)
(* iterations are its own local names.                                     *)
(***************************************************************************)
MaxPairLen == 2
Runs == {1, 2}

\* the locals as bound before the loop
StartLocals(capital) ==
    [i                    |-> 1,
     cash                 |-> StartCash(capital),
     holdings             |-> StartHoldings,
     total_fees           |-> Zero,
     portfolio_values     |-> <<>>,
     positions            |-> <<>>,
     trades               |-> <<>>,
     daily_returns        |-> <<>>,
     prev_portfolio_value |-> Num(capital)]

\* one iteration of the loop, from the locals l to the locals after it
Day(l, price, signal, rate) ==
    LET shares == Shares(l.cash, price)
        buy    == signal = 1 /\ l.holdings = 0 /\ CanBuy(shares)
        sell   == ~(signal = 1 /\ l.holdings = 0) /\ signal = -1 /\ l.holdings > 0
        fee    == IF buy THEN Fee(shares, price, rate)
                  ELSE IF sell THEN Fee(l.holdings, price, rate)
                  ELSE Zero
        c      == IF buy THEN CashAfterBuy(l.cash, shares, price, fee)
                  ELSE IF sell THEN CashAfterSell(l.cash, l.holdings, price, fee)
                  ELSE l.cash
        h      == IF buy THEN HoldingsAfterBuy(l.holdings, shares)
                  ELSE IF sell THEN 0
                  ELSE l.holdings
        value  == PortfolioValue(c, h, price)
    IN  [i                    |-> l.i + 1,
         cash                 |-> c,
         holdings             |-> h,
         total_fees           |-> IF buy \/ sell THEN RAdd(l.total_fees, fee)
                                  ELSE l.total_fees,
         portfolio_values     |-> Append(l.portfolio_values, value),
         positions            |-> Append(l.positions,
                                         IF buy THEN 1
                                         ELSE IF sell THEN 0
                                         ELSE PreviousPosition(l.positions)),
         trades               |-> Append(l.trades,
                                         IF buy THEN 1 ELSE IF sell THEN -1 ELSE 0),
         daily_returns        |-> Append(l.daily_returns,
                                         DailyReturn(value, l.prev_portfolio_value)),
         prev_portfolio_value |-> value]

\* the columns written after the loop over n rows
Columns(l, n) ==
    [PortfolioValue      |-> l.portfolio_values,
     TotalFees           |-> [k \in 1..n |-> l.total_fees],
     Positions           |-> l.positions,
     Trades              |-> l.trades,
     StrategyDailyReturn |-> l.daily_returns]

\* cash, holdings, total_fees and the lists kept in one module-level place
\* that every invocation uses
Owner_Shared(r) == 1

\* the locals invocation r reads and writes: its own
Owner(r) == r

\* the arguments of the first invocation: any short frame with any signals
FirstCalls ==
    UNION {{[Close |-> c, Signal |-> sg, initial_capital |-> 8,
             fee_percentage |-> Rat(1, 4)] :
               sg \in [1..Len(c) -> {-1, 0, 1}]} :
           c \in SeqsUpTo(DirectPrices, MaxPairLen) \ {<<>>}}

\* the arguments of the second invocation: two bars with a Buy then a Sell
\* signal, capital 1, no fee
SecondCalls ==
    {[Close |-> c, Signal |-> <<1, -1>>, initial_capital |-> 1,
      fee_percentage |-> Zero] : c \in [1..2 -> DirectPrices]}

Called(args) ==
    [Close |-> args.Close, Signal |-> args.Signal,
     initial_capital |-> args.initial_capital,
     fee_percentage |-> args.fee_percentage,
     pc |-> "backtest_strategy", frame |-> NoFrame, metrics |-> NoMetrics]

InitPair ==
    /\ \E a \in FirstCalls, b \in SecondCalls :
           pair = [call   |-> <<Called(a), Called(b)>>,
                   locals |-> <<StartLocals(0), StartLocals(0)>>]
    /\ entry = "backtest_strategy"
    /\ until = "calculate_performance_metrics"
    /\ Close = <<>>
    /\ RSI = <<>>
    /\ Signal = <<>>
    /\ period = DefaultPeriod
    /\ rsi_overbought = 70
    /\ rsi_oversold = 30
    /\ initial_capital = 1
    /\ fee_percentage = Zero
    /\ run = 1
    /\ pc = "pair"
    /\ InitLocals
    /\ frame = NoFrame
    /\ metrics = NoMetrics
    /\ raised = ""
    /\ first = NoOutput
    /\ NoWindow

PairStart(r) ==
    /\ pair.call[r].pc = "backtest_strategy"
    /\ pair' = [pair EXCEPT
                  !.locals[Owner(r)] = StartLocals(pair.call[r].initial_capital),
                  !.call[r].pc = "loop"]
    /\ UNCHANGED <<params, RSI, Signal, run, pc, locals, frame, metrics, raised, first,
                   window>>

PairDay(r) ==
    LET c == pair.call[r]
        l == pair.locals[Owner(r)]
    IN  /\ c.pc = "loop"
        /\ l.i <= Len(c.Close)
        /\ pair' = [pair EXCEPT
                      !.locals[Owner(r)] =
                          Day(l, Num(c.Close[l.i]), c.Signal[l.i], c.fee_percentage)]
        /\ UNCHANGED <<params, RSI, Signal, run, pc, locals, frame, metrics, raised,
                       first, window>>

PairReturn(r) ==
    LET c == pair.call[r]
        l == pair.locals[Owner(r)]
    IN  /\ c.pc = "loop"
        /\ l.i > Len(c.Close)
        /\ pair' = [pair EXCEPT
                      !.call[r].frame = Columns(l, Len(c.Close)),
                      !.call[r].pc = "calculate_performance_metrics"]
        /\ UNCHANGED <<params, RSI, Signal, run, pc, locals, frame, metrics, raised,
                       first, window>>

\* the caller passes the returned frame on to calculate_performance_metrics
PairMetrics(r) ==
    LET c == pair.call[r]
    IN  /\ c.pc = "calculate_performance_metrics"
        /\ pair' = [pair EXCEPT
                      !.call[r].metrics =
                          PerformanceMetrics(c.frame, c.Close, c.initial_capital),
                      !.call[r].pc = "done"]
        /\ UNCHANGED <<params, RSI, Signal, run, pc, locals, frame, metrics, raised,
                       first, window>>

NextPair ==
    \/ \E r \in Runs : PairStart(r)
    \/ \E r \in Runs : PairDay(r)
    \/ \E r \in Runs : PairReturn(r)
    \/ \E r \in Runs : PairMetrics(r)

SpecPair == InitPair /\ [][NextPair]_vars

(***************************************************************************)
(* Properties.                                                             *)
(***************************************************************************)
\* the pipeline computed its columns from the price series
PipelineRun == entry = "calculate_rsi"
RsiWritten == PipelineRun /\ pc \notin {"calculate_rsi"}
SignalsWritten == PipelineRun /\ pc \notin {"calculate_rsi", "generate_signals"}
\* the loop of backtest_strategy has simulated at least one day
Simulating == pc = "loop" /\ Len(trades) > 0
LastTrade == trades[Len(trades)]

\* C1: after every executed Buy or Sell of backtest_strategy the cash balance
\* is >= 0, for every capital > 0 and fee rate >= 0.
C1_CashNonNegativeAfterTrade ==
    (Simulating /\ LastTrade # 0) => RGe(cash, Zero)

\* C2: in every state backtest_strategy reaches, the number of shares held is
\* a non-negative integer.
C2_SharesNonNegativeInteger == holdings \in Nat

\* a Buy and a Sell were executed, then a Buy signal came while Flat with
\* negative cash
C2_Witness ==
    /\ Simulating
    /\ holdings = 0
    /\ Signal[i - 1] = 1
    /\ RLt(cash, Zero)
    /\ Len(trades) = 3 /\ trades[1] = 1 /\ trades[2] = -1 /\ trades[3] = 0

\* C3: a Buy signal while Flat with floor(cash / price) = 0 executes no trade:
\* shares stay 0, cash and cumulative fees are unchanged, the position flag
\* stays 0 and the day's action is recorded as Hold.
C3_UnaffordableBuyIsHold ==
    [][(/\ InLoop
        /\ Signal[i] = 1
        /\ holdings = 0
        /\ (cash.n * 1) \div (cash.d * Close[i]) = 0)
       => (/\ holdings' = 0
           /\ cash' = cash
           /\ total_fees' = total_fees
           /\ PreviousPosition(positions) = 0
           /\ positions' = Append(positions, 0)
           /\ trades' = Append(trades, 0))]_vars

\* the day after a Buy signal that found less cash than one share costs
C3_Witness ==
    /\ Simulating
    /\ Signal[i - 1] = 1
    /\ LastTrade = 0
    /\ holdings = 0
    /\ PreviousPosition(SubSeq(positions, 1, i - 2)) = 0
    /\ RGe(cash, Zero) /\ RLt(cash, Num(Close[i - 1]))

\* C4: calculate_rsi produces exactly one RSI value per input bar, every value
\* lies in [0, 100], and the first bar's RSI equals 50.
C4_RsiPerBarInRange ==
    RsiWritten =>
        /\ Len(RSI) = Len(Close)
        /\ \A k \in 1..Len(RSI) :
               /\ RSI[k].d > 0
               /\ 0 <= RSI[k].n
               /\ RSI[k].n <= 100 * RSI[k].d
        /\ Len(RSI) > 0 => RSI[1] = [n |-> 50, d |-> 1]

\* a series longer than the window, with one RSI at an end of the range and
\* one that is no whole number
C4_Witness ==
    /\ RsiWritten
    /\ Len(RSI) > period
    /\ \E k \in 1..Len(RSI) : RSI[k] \in {Num(0), Num(100)}
    /\ \E k \in 2..Len(RSI) : RSI[k].d > 1

\* C5: generate_signals assigns each bar exactly one signal value (the Buy and
\* the Sell condition never hold at the same bar), whatever the thresholds,
\* and bar 0's signal is Hold.
C5_OneSignalPerBar ==
    SignalsWritten =>
        /\ Len(Signal) = Len(RSI)
        /\ \A k \in 1..Len(Signal) :
               /\ Signal[k] \in {-1, 0, 1}
               /\ ~(/\ buy_signals(RSI, k, rsi_oversold)
                    /\ sell_signals(RSI, k, rsi_overbought))
        /\ Len(Signal) > 0 => Signal[1] = 0

\* a series carrying both a Buy and a Sell signal
C5_Witness ==
    /\ SignalsWritten
    /\ \E k \in 1..Len(Signal) : Signal[k] = 1
    /\ \E k \in 1..Len(Signal) : Signal[k] = -1

\* RSI[k] compared with an integer threshold, by cross-multiplication
Above(k, t) == RSI[k].n > t * RSI[k].d
Below(k, t) == RSI[k].n < t * RSI[k].d

\* C6: for 0 < oversold < overbought < 100 and every bar i > 0, the signal is
\* Buy iff RSI[i] > oversold and RSI[i-1] <= oversold, Sell iff
\* RSI[i] < overbought and RSI[i-1] >= overbought, and Hold otherwise.
C6_SignalRule ==
    (SignalsWritten /\ ValidThresholds) =>
        \A k \in 2..Len(Signal) :
            /\ Signal[k] = 1 <=>
                   (Above(k, rsi_oversold) /\ ~Above(k - 1, rsi_oversold))
            /\ Signal[k] = -1 <=>
                   (Below(k, rsi_overbought) /\ ~Below(k - 1, rsi_overbought))
            /\ Signal[k] \in {-1, 0, 1}

\* valid thresholds, a Buy fired from an RSI exactly on the oversold level and
\* a Sell fired later
C6_Witness ==
    /\ SignalsWritten
    /\ ValidThresholds
    /\ \E k \in 2..Len(Signal) :
           /\ Signal[k] = 1
           /\ RSI[k - 1] = Num(rsi_oversold)
           /\ \E j \in (k + 1)..Len(Signal) : Signal[j] = -1

Ended == pc \in {"done", "raised"}
ZeroFallback == [num |-> Zero, sq |-> Num(1)]

\* C7: given an empty price series the pipeline does not raise: it returns
\* empty outputs and a metrics summary.
C7_EmptySeriesDoesNotRaise ==
    (PipelineRun /\ Len(Close) = 0) => (pc # "raised" /\ raised = "")

\* C8: for a single-bar price series every pipeline output has exactly one
\* element, the strategy's total return is 0, its max drawdown is 0, and both
\* annualized volatility and Sharpe ratio take the zero-fallback value 0.
C8_SingleBarMetrics ==
    (PipelineRun /\ Len(Close) = 1 /\ Ended) =>
        /\ pc = "done"
        /\ Len(RSI) = 1
        /\ Len(Signal) = 1
        /\ \A c \in DOMAIN frame : Len(frame[c]) = 1
        /\ metrics.total_return = Zero
        /\ metrics.max_drawdown = Zero
        /\ metrics.volatility = [sq |-> Zero]
        /\ metrics.sharpe_ratio = ZeroFallback

\* C9: running the pipeline twice on the same price series and parameters
\* yields identical columns, trajectories and metrics.
C9_SecondRunIdentical ==
    (run = 2 /\ Ended) => Output = first

\* the second run of a series on which the strategy bought and sold
C9_Witness ==
    /\ run = 2
    /\ pc = "done"
    /\ PipelineRun
    /\ AbsSum(frame.Trades) >= 2
    /\ RLt(Zero, metrics.fees_paid)

\* C10: the buy-and-hold total return equals close[last] / close[0] - 1,
\* whatever the strategy's signals, trades and fee rate.
C10_BuyHoldTotalReturn ==
    pc = "done" =>
        LET r == metrics.bh_total_return
        IN  /\ r.d > 0
            /\ r.n * Close[1] = (Close[Len(Close)] - Close[1]) * r.d

\* the strategy traded at a fee and the price moved between first and last bar
C10_Witness ==
    /\ pc = "done"
    /\ Close[Len(Close)] # Close[1]
    /\ AbsSum(frame.Trades) >= 1
    /\ RLt(Zero, metrics.fees_paid)
    /\ metrics.total_return # metrics.bh_total_return

Scenario == PipelineRun /\ Close = <<100, 90, 80, 95, 110>> /\ initial_capital = 10000
\* the RSI crossed from <= 30 to > 30 at bar k or at an earlier bar
CrossedUpBy(k) ==
    \E j \in 2..k : RSI[j].n > 30 * RSI[j].d /\ RSI[j - 1].n <= 30 * RSI[j - 1].d

\* C11: for closes [100, 90, 80, 95, 110], period 14, capital 10000, fee 0 and
\* thresholds 70 / 30, day 0's RSI is 50, no Buy is executed before the first
\* bar whose RSI crosses from <= 30 to > 30, and on every Hold day the recorded
\* portfolio value is the prior day's cash plus the prior day's shares valued
\* at that day's close.
C11_ScenarioTrajectory ==
    [][(Scenario /\ InLoop) =>
          /\ RSI[1] = [n |-> 50, d |-> 1]
          /\ Len(trades') = i
          /\ trades'[i] = 1 => CrossedUpBy(i)
          /\ trades'[i] = 0 =>
                 /\ portfolio_values'[i].d = 1
                 /\ portfolio_values'[i].n * cash.d = cash.n + holdings * Close[i] * cash.d]_vars

\* the scenario's trajectory: the Buy at the crossing on day 3, then a Hold day
\* on which the 105 shares are worth 110 each
C11_Witness ==
    /\ Scenario
    /\ pc = "returned"
    /\ RSI = <<Num(50), Num(0), Num(0), Rat(300, 7), Num(60)>>
    /\ frame.Trades = <<0, 0, 0, 1, 0>>
    /\ frame.PortfolioValue =
           <<Num(10000), Num(10000), Num(10000), Num(10000), Num(11575)>>

StrictlyIncreasing == \A k \in 2..Len(Close) : Close[k] > Close[k - 1]
StrictlyDecreasing == \A k \in 2..Len(Close) : Close[k] < Close[k - 1]

\* C12: on a strictly increasing price series the RSI of every bar after the
\* first is at the top of its range, 100 (so none is below the neutral 50); on
\* a strictly decreasing series it is at the bottom, 0 (none is above 50).
C12_MonotoneSeriesSaturate ==
    RsiWritten =>
        /\ StrictlyIncreasing =>
               \A k \in 2..Len(RSI) : RSI[k].n >= 50 * RSI[k].d /\ RSI[k] = Num(100)
        /\ StrictlyDecreasing =>
               \A k \in 2..Len(RSI) : RSI[k].n <= 50 * RSI[k].d /\ RSI[k] = Num(0)

\* the RSI of a series that rises on each of its three bars
C12_Witness ==
    /\ RsiWritten
    /\ Len(Close) >= 3
    /\ StrictlyIncreasing
    /\ RSI[Len(RSI)] = Num(100)

\* the parameter constraints: capital > 0, fee rate >= 0 and
\* 0 < oversold < overbought < 100
ValidParameters ==
    /\ initial_capital > 0
    /\ RGe(fee_percentage, Zero)
    /\ ValidThresholds

\* C13: a core entry point (generate_signals, backtest_strategy,
\* calculate_performance_metrics) called with capital <= 0, fee rate < 0 or a
\* threshold pair violating 0 < oversold < overbought < 100 fails fast with an
\* InvalidParameter error instead of producing an output trajectory or metrics.
C13_CoreFailsFast ==
    (PipelineRun /\ ~ValidParameters /\ pc \notin {"calculate_rsi", "generate_signals"})
        => /\ raised = "InvalidParameter"
           /\ Signal = <<>>
           /\ frame = NoFrame
           /\ metrics = NoMetrics

\* C16: each of the four pipeline functions is side-effect free: it leaves the
\* series object passed in by the caller (its price, RSI and Signal columns)
\* unchanged and only returns a new result.
C16_PipelineFunctionsPure ==
    [][Close' = Close /\ RSI' = RSI /\ Signal' = Signal]_vars

\* the rational x equals n / d, by cross-multiplication
EqualsFraction(x, n, d) == x.d > 0 /\ d > 0 /\ x.n * d = n * x.d
\* the position flag and the action recorded for day i by the step
RecordedDay(position, trade) ==
    /\ Len(positions') = i /\ positions'[i] = position
    /\ Len(trades') = i /\ trades'[i] = trade
\* the position flag of the day before day i, Flat before the first day
FlagBefore == IF i = 1 THEN 0 ELSE positions[i - 1]

\* C18: on a day with a Buy signal while Flat and floor(cash / price) >= 1,
\* shares becomes floor(cash / price), cash decreases by exactly
\* shares * price + shares * price * feeRate, cumulative fees increase by
\* shares * price * feeRate, the state becomes Long and the action is
\* recorded as Buy.
C18_BuyDay ==
    [][(/\ InLoop
        /\ Signal[i] = 1
        /\ holdings = 0
        /\ cash.n >= cash.d * Close[i])
       => LET s == holdings'
              r == fee_percentage
              cost == s * Close[i]
          IN  /\ s \in Nat
              /\ s * Close[i] * cash.d <= cash.n
              /\ cash.n < (s + 1) * Close[i] * cash.d
              /\ EqualsFraction(cash', cash.n * r.d - cost * (r.d + r.n) * cash.d,
                                cash.d * r.d)
              /\ EqualsFraction(total_fees',
                                total_fees.n * r.d + cost * r.n * total_fees.d,
                                total_fees.d * r.d)
              /\ RecordedDay(1, 1)]_vars

\* the day after a Buy at a fee that left idle cash behind
C18_Witness ==
    /\ Simulating
    /\ Signal[i - 1] = 1
    /\ LastTrade = 1
    /\ holdings >= 2
    /\ positions[i - 1] = 1
    /\ RLt(Zero, fee_percentage)
    /\ RLt(Zero, total_fees)
    /\ RLt(Zero, cash)

\* C19: on a day with a Sell signal while Long the whole position is
\* liquidated: cash increases by exactly shares * price - shares * price *
\* feeRate, shares becomes 0, cumulative fees increase by shares * price *
\* feeRate, the state becomes Flat and the action is recorded as Sell.
C19_SellDay ==
    [][(/\ InLoop
        /\ Signal[i] = -1
        /\ holdings > 0)
       => LET r == fee_percentage
              proceeds == holdings * Close[i]
          IN  /\ holdings' = 0
              /\ EqualsFraction(cash', cash.n * r.d + proceeds * (r.d - r.n) * cash.d,
                                cash.d * r.d)
              /\ EqualsFraction(total_fees',
                                total_fees.n * r.d + proceeds * r.n * total_fees.d,
                                total_fees.d * r.d)
              /\ RecordedDay(0, -1)]_vars

\* the day after a Sell at a fee of a position of several shares
C19_Witness ==
    /\ Simulating
    /\ Signal[i - 1] = -1
    /\ LastTrade = -1
    /\ holdings = 0
    /\ positions[i - 1] = 0
    /\ i > 2 /\ positions[i - 2] = 1
    /\ RLt(Zero, fee_percentage)
    /\ RLt(Zero, cash)
    /\ \E k \in 1..(i - 2) : trades[k] = 1 /\ RLt(Fee(1, Price(k), fee_percentage), total_fees)

\* C20: on a day with a Sell signal while Flat, a Buy signal while Long, or a
\* Hold signal in either state, cash, shares and cumulative fees are all
\* unchanged, the position flag repeats the previous day's flag, and the
\* action is recorded as Hold.
C20_NoTradeDay ==
    [][(/\ InLoop
        /\ \/ Signal[i] = -1 /\ holdings = 0
           \/ Signal[i] = 1 /\ holdings > 0
           \/ Signal[i] = 0)
       => (/\ cash' = cash
           /\ holdings' = holdings
           /\ total_fees' = total_fees
           /\ RecordedDay(FlagBefore, 0))]_vars

\* a Buy signal met while Long, after a Sell signal met while Flat
C20_Witness ==
    /\ Simulating
    /\ i > 3
    /\ Signal[i - 1] = 1 /\ LastTrade = 0 /\ holdings > 0
    /\ positions[i - 1] = 1 /\ positions[i - 2] = 1
    /\ Signal[1] = -1 /\ trades[1] = 0 /\ positions[1] = 0

\* C17: every trajectory that backtest_strategy hands to
\* calculate_performance_metrics carries a daily return and the cumulative
\* fees for each simulated day, so the volatility, Sharpe and fees
\* computations never fail for a missing field.
C17_TrajectoryCarriesReturnsAndFees ==
    /\ pc = "calculate_performance_metrics" =>
           /\ {"StrategyDailyReturn", "TotalFees"} \subseteq DOMAIN frame
           /\ Len(frame.StrategyDailyReturn) = Len(Close)
           /\ Len(frame.TotalFees) = Len(Close)
    /\ raised # "KeyError"

\* a Run Backtest click is handled
Click == pc = "idle" /\ clicks' = clicks + 1

\* C14: in BacktestApp.run_backtest a failed parameter check (capital <= 0,
\* fee < 0, a threshold outside (0, 100), oversold >= overbought, or a
\* non-numeric entry) is reported as an input error and the handler returns
\* before the data fetch and before any pipeline stage runs; the application
\* is not terminated, the previously displayed metrics and plot are unchanged,
\* and a later Run Backtest with valid parameters still runs the pipeline and
\* displays metrics.
C14_InputErrorIsLocal ==
    [][/\ Click =>
           IF InputError # ""
           THEN /\ dialog'.title = "Input Error"
                /\ pc' = "idle"
                /\ UNCHANGED <<Close, RSI, Signal, frame, metrics>>
                /\ UNCHANGED <<metrics_frame, canvas>>
           ELSE /\ dialog'.title \in {"", "No Data"}
                /\ dialog'.title = "" => pc' = "calculate_rsi"
       /\ (pc = "done" /\ clicks > 0) =>
              /\ pc' = "idle"
              /\ metrics_frame' = PerformanceMetrics(frame, Close, initial_capital)
              /\ canvas'.PortfolioValue = frame.PortfolioValue]_vars

\* the locals of an invocation with the arguments c that runs alone, after k
\* iterations of its loop
RECURSIVE AloneAfter(_, _)
AloneAfter(c, k) ==
    IF k = 0 THEN StartLocals(c.initial_capital)
    ELSE Day(AloneAfter(c, k - 1), Num(c.Close[k]), c.Signal[k], c.fee_percentage)
\* the frame that invocation returns
AloneFrame(c) == Columns(AloneAfter(c, Len(c.Close)), Len(c.Close))

\* C15: two backtest invocations whose simulated days are interleaved in any
\* order, on different inputs, each produce exactly the trajectory and metrics
\* they produce when run alone: the cash, shares, cumulative fees and previous
\* portfolio value of one run are never read or written by the other.
C15_InterleavedRunsIndependent ==
    \A r \in Runs :
        LET c == pair.call[r]
            l == pair.locals[r]
        IN  /\ c.pc = "loop" =>
                   /\ l.i \in 1..(Len(c.Close) + 1)
                   /\ l = AloneAfter(c, l.i - 1)
            /\ c.pc \in {"calculate_performance_metrics", "done"} =>
                   c.frame = AloneFrame(c)
            /\ c.pc = "done" =>
                   c.metrics = PerformanceMetrics(AloneFrame(c), c.Close, c.initial_capital)

\* both invocations are inside their loops, each has bought on its first day
\* and simulates its second day next, holding different cash
C15_Witness ==
    /\ \A r \in Runs :
           /\ pair.call[r].pc = "loop"
           /\ pair.locals[r].i = 2
           /\ pair.locals[r].trades = <<1>>
    /\ pair.call[1].Close # pair.call[2].Close
    /\ pair.locals[1].cash # pair.locals[2].cash

\* C21: on every simulated day, whatever the action, the recorded portfolio
\* value equals end-of-day cash + shares * that day's close, and the recorded
\* position flag is 1 exactly when shares > 0 and 0 exactly when shares = 0.
C21_RecordedValueAndFlag ==
    Simulating =>
        /\ Len(portfolio_values) = i - 1
        /\ Len(positions) = i - 1
        /\ EqualsFraction(portfolio_values[i - 1],
                          cash.n + holdings * Close[i - 1] * cash.d, cash.d)
        /\ holdings >= 0
        /\ positions[i - 1] = 1 <=> holdings > 0
        /\ positions[i - 1] = 0 <=> holdings = 0

\* a Buy, a day held while the price moved, and a Sell
C21_Witness ==
    /\ Simulating
    /\ i > 3
    /\ positions = <<1, 1, 0>>
    /\ trades = <<1, 0, -1>>
    /\ holdings = 0
    /\ Close[1] # Close[2]
    /\ portfolio_values[1] # portfolio_values[2]
    /\ RLt(Zero, fee_percentage)

\* the value the return of day k is relative to: the initial capital for the
\* first day, the value of the day before otherwise
Prior(k) == IF k = 1 THEN Num(initial_capital) ELSE portfolio_values[k - 1]

\* C22: the recorded daily return of day i is (value[i] - prior) / prior,
\* where prior is the initial capital for day 0 and value[i-1] for i > 0; when
\* prior is exactly 0 the recorded return is 0 and no division is attempted.
C22_DailyReturn ==
    Simulating =>
        /\ Len(daily_returns) = i - 1
        /\ \A k \in 1..(i - 1) :
               LET v == portfolio_values[k]
                   p == Prior(k)
                   r == daily_returns[k]
               IN  /\ r.d > 0
                   /\ p.n = 0 => r = Zero
                   /\ p.n # 0 => r.n * (v.d * p.n) = (v.n * p.d - p.n * v.d) * r.d

\* the day after the portfolio was worth exactly 0: shares bought at a fee
\* with all the cash, then a price fall
C22_Witness ==
    /\ Simulating
    /\ i > 3
    /\ portfolio_values[i - 2] = Zero
    /\ daily_returns[i - 1] = Zero
    /\ portfolio_values[i - 1] # Zero
    /\ daily_returns[1] # Zero

\* the call's arguments with the price and signal series cut after day k
PrefixCall(k) ==
    [Close |-> SubSeq(Close, 1, k), Signal |-> SubSeq(Signal, 1, k),
     initial_capital |-> initial_capital, fee_percentage |-> fee_percentage]
\* the first k days of the recorded action, portfolio value, position flag and
\* daily return
RecordedUpTo(tr, pv, pos, dr, k) ==
    <<SubSeq(tr, 1, k), SubSeq(pv, 1, k), SubSeq(pos, 1, k), SubSeq(dr, 1, k)>>
\* the trajectory of the series that ends with day k
TrajectoryOfPrefix(k) ==
    LET l == AloneAfter(PrefixCall(k), k)
    IN  <<l.trades, l.portfolio_values, l.positions, l.daily_returns>>

\* C23: the simulation has no look-ahead: the trajectory (action, portfolio
\* value, position flag, daily return) of days 0..k is the one of the series
\* cut after day k, so two price/signal series that agree on days 0..k (same
\* parameters) have trajectories that agree on days 0..k, whatever the series
\* contain after day k.
C23_NoLookAhead ==
    /\ Simulating =>
           RecordedUpTo(trades, portfolio_values, positions, daily_returns, i - 1)
               = TrajectoryOfPrefix(i - 1)
    /\ pc \in {"calculate_performance_metrics", "returned", "done"} =>
           \A k \in 1..Len(Close) :
               RecordedUpTo(frame.Trades, frame.PortfolioValue, frame.Positions,
                            frame.StrategyDailyReturn, k)
                   = TrajectoryOfPrefix(k)

\* a returned trajectory with a Buy on a day after which the price moved and a
\* Sell signal followed
C23_Witness ==
    /\ pc \in {"calculate_performance_metrics", "returned", "done"}
    /\ \E k \in 1..(Len(Close) - 1) :
           /\ frame.Trades[k] = 1
           /\ Close[k + 1] # Close[k]
           /\ Signal[k + 1] = -1
           /\ frame.Trades[k + 1] = -1

\* mean(returns) * 252 - 0.01 as one fraction over the sum of the returns
ExcessReturn(returns) ==
    LET total == SumSeq(returns)
    IN  Rat(25200 * total.n - Len(returns) * total.d, 100 * Len(returns) * total.d)
\* the reported Sharpe ratio sharpe goes with the reported volatility vol of
\* the return series returns
SharpeFollows(sharpe, vol, returns) ==
    /\ vol.sq = Zero => sharpe = ZeroFallback
    /\ (vol.sq # Zero /\ ~IsNaN(vol.sq)) =>
           /\ sharpe.num = ExcessReturn(returns)
           /\ sharpe.sq = vol.sq
    /\ IsNaN(vol.sq) => IsNaN(sharpe.num)

\* C24: whenever the annualized volatility of a return series is exactly 0
\* (for example a trajectory with no executed trade, whose daily returns are
\* all 0), the reported Sharpe ratio is 0, for the strategy and likewise for
\* buy-and-hold; otherwise it is (mean daily return * 252 - 0.01) /
\* annualized volatility.
C24_SharpeZeroVolatility ==
    pc = "done" =>
        /\ SharpeFollows(metrics.sharpe_ratio, metrics.volatility,
                         frame.StrategyDailyReturn)
        /\ SharpeFollows(metrics.bh_sharpe_ratio, metrics.bh_volatility,
                         PctChange(Close))
        /\ (\A k \in 1..Len(Close) : frame.StrategyDailyReturn[k] = Zero)
               => metrics.volatility.sq \in {Zero, NaN}

\* no trade was executed on a series of several days whose price moved: the
\* strategy's volatility is exactly 0 and its Sharpe ratio 0, while
\* buy-and-hold has a volatility and a Sharpe ratio from the quotient
C24_Witness ==
    /\ pc = "done"
    /\ Len(Close) >= 3
    /\ AbsSum(frame.Trades) = 0
    /\ metrics.volatility.sq = Zero
    /\ metrics.sharpe_ratio = ZeroFallback
    /\ RLt(Zero, metrics.bh_volatility.sq)
    /\ metrics.bh_sharpe_ratio # ZeroFallback

\* max(value[0..k]): the value of some day up to k that no day up to k exceeds
PeakUpTo(v, k) ==
    CHOOSE m \in {v[j] : j \in 1..k} : \A j \in 1..k : RLe(v[j], m)
\* (value[k] - peak) / peak as one fraction
DrawdownAt(v, k) ==
    LET m == PeakUpTo(v, k)
    IN  Rat(v[k].n * m.d - m.n * v[k].d, v[k].d * m.n)
\* the reported max drawdown of the value series v is its most negative
\* drawdown, and no drawdown is positive
MaxDrawdownFollows(reported, v) ==
    LET dd == [k \in 1..Len(v) |-> DrawdownAt(v, k)]
    IN  /\ \A k \in 1..Len(v) : dd[k].n <= 0 /\ dd[k].d > 0
        /\ \E k \in 1..Len(v) : reported = dd[k]
        /\ \A k \in 1..Len(v) : RLe(reported, dd[k])
        /\ (\A j, k \in 1..Len(v) : j < k => RLe(v[j], v[k])) => reported = Zero
AllPositive(v) == \A k \in 1..Len(v) : v[k].n > 0 /\ v[k].d > 0

\* C25: for any non-empty trajectory with positive portfolio values,
\* drawdown[i] = (value[i] - max(value[0..i])) / max(value[0..i]) with the
\* running maximum including day i, every drawdown is <= 0, and the reported
\* max drawdown is the minimum drawdown over all days (0 when the value never
\* falls below an earlier peak); likewise for the buy-and-hold value.
C25_MaxDrawdown ==
    (pc = "done" /\ AllPositive(frame.PortfolioValue)) =>
        /\ MaxDrawdownFollows(metrics.max_drawdown, frame.PortfolioValue)
        /\ MaxDrawdownFollows(metrics.bh_max_drawdown,
                              BuyAndHoldValue(Close, initial_capital))

\* the portfolio value rose to a peak and fell below it, and ended on a new
\* peak: the max drawdown is the fall, not the last day's 0
C25_Witness ==
    /\ pc = "done"
    /\ AllPositive(frame.PortfolioValue)
    /\ Len(Close) >= 3
    /\ RLt(metrics.max_drawdown, Zero)
    /\ DrawdownAt(frame.PortfolioValue, Len(Close)) = Zero
    /\ \E k \in 2..Len(Close) :
           RLt(frame.PortfolioValue[1], frame.PortfolioValue[k])

\* the position flag at the start of day k of the returned trajectory
FlagAtStart(k) == IF k = 1 THEN 0 ELSE frame.Positions[k - 1]
\* the days on which a trade was executed: the position flag changed
ExecutedDays == {k \in 1..Len(Close) : frame.Positions[k] # FlagAtStart(k)}

\* C26: the reported trade count equals the number of simulated days whose
\* recorded action is Buy or Sell (not Hold); a Buy signal that could not be
\* executed (zero affordable shares) or a signal ignored because of the
\* current position is not counted.
C26_TradeCount ==
    pc = "done" =>
        /\ metrics.number_of_trades =
               Cardinality({k \in 1..Len(Close) : frame.Trades[k] \in {1, -1}})
        /\ metrics.number_of_trades = Cardinality(ExecutedDays)
        /\ \A k \in 1..Len(Close) :
               /\ frame.Trades[k] \in {-1, 0, 1}
               /\ frame.Trades[k] # 0 => Signal[k] = frame.Trades[k]

\* a Buy and a Sell were executed and counted; a later Buy signal found less
\* cash than one share costs and was not
C26_Witness ==
    /\ pc = "done"
    /\ metrics.number_of_trades = 2
    /\ \E k \in 3..Len(Close) :
           /\ Signal[k] = 1
           /\ FlagAtStart(k) = 0
           /\ frame.Trades[k] = 0
           /\ frame.Trades[k - 1] = -1

\* total_fees grew by shares * price * feeRate in the step
FeeCharged(shares) ==
    EqualsFraction(total_fees',
                   total_fees.n * fee_percentage.d
                       + shares * Close[i] * fee_percentage.n * total_fees.d,
                   total_fees.d * fee_percentage.d)

\* C27: the reported fees paid equals the sum, over all executed Buy and Sell
\* days, of shares * price * feeRate of that trade: the cumulative fees start
\* at 0, grow by exactly that amount on a Buy or Sell day, and what is
\* reported is their final value; cumulative fees are >= 0, never decrease
\* from one day to the next, and change only on days whose action is Buy or
\* Sell.
C27_FeesPaid ==
    [][/\ pc = "backtest_strategy" => total_fees' = Zero
       /\ InLoop =>
              /\ trades'[i] = 1 => FeeCharged(holdings')
              /\ trades'[i] = -1 => FeeCharged(holdings)
              /\ trades'[i] = 0 => total_fees' = total_fees
              /\ RGe(total_fees, Zero)
              /\ RLe(total_fees, total_fees')
       /\ (pc = "loop" /\ ~InLoop) =>
              \A k \in 1..Len(Close) : frame'.TotalFees[k] = total_fees
       /\ (pc = "calculate_performance_metrics" /\ pc' = "done") =>
              metrics'.fees_paid = total_fees]_vars

\* a finished run with a Buy of several shares and a Sell at another price,
\* both at a fee, and a day without a trade
C27_Witness ==
    /\ pc = "done"
    /\ \E j, k \in 1..Len(Close) :
           /\ frame.Trades[j] = 1
           /\ frame.Trades[k] = -1
           /\ Close[j] # Close[k]
    /\ \E k \in 1..Len(Close) : frame.Trades[k] = 0
    /\ RLt(Zero, fee_percentage)
    /\ metrics.fees_paid = total_fees
    /\ RLt(Fee(2, Num(1), fee_percentage), metrics.fees_paid)

\* the threshold region of bar k's RSI: at or below oversold, at or above
\* overbought, or between the two
Region(k) ==
    IF ~Above(k, rsi_oversold) THEN "oversold"
    ELSE IF ~Below(k, rsi_overbought) THEN "overbought"
    ELSE "between"

\* C28: a signal marks only the first bar of a crossing: for any RSI series
\* and thresholds with 0 < oversold < overbought < 100, no two consecutive
\* bars both carry Buy and no two consecutive bars both carry Sell; bars that
\* stay inside the same threshold region after the crossing carry Hold.
C28_SignalOnlyAtCrossing ==
    (SignalsWritten /\ ValidThresholds) =>
        \A k \in 2..Len(Signal) :
            /\ ~(Signal[k - 1] = 1 /\ Signal[k] = 1)
            /\ ~(Signal[k - 1] = -1 /\ Signal[k] = -1)
            /\ Region(k - 1) = Region(k) => Signal[k] = 0

\* a Buy at the bar that left the oversold region, Hold on the next bar, which
\* stayed in the region reached, and a Sell later
C28_Witness ==
    /\ SignalsWritten
    /\ ValidThresholds
    /\ \E k \in 2..(Len(Signal) - 1) :
           /\ Signal[k] = 1
           /\ Region(k - 1) = "oversold"
           /\ Region(k + 1) = Region(k)
           /\ Signal[k + 1] = 0
           /\ \E j \in (k + 2)..Len(Signal) : Signal[j] = -1

\* the number of days up to day k whose recorded action is a
ActionsUpTo(a, k) == Cardinality({j \in 1..k : trades[j] = a})
\* the last Buy or Sell recorded before day k, 0 when there is none
LastActionBefore(k) ==
    IF \E j \in 1..(k - 1) : trades[j] # 0
    THEN trades[CHOOSE j \in 1..(k - 1) :
                    trades[j] # 0 /\ \A m \in (j + 1)..(k - 1) : trades[m] = 0]
    ELSE 0

\* C29: in every trajectory produced by backtest_strategy the executed actions
\* strictly alternate starting with a Buy: the first non-Hold action is a Buy,
\* a Sell is never recorded unless a Buy was recorded earlier with no Sell in
\* between, and at the end of every day (number of Buys so far) - (number of
\* Sells so far) equals that day's position flag (0 or 1).
C29_ActionsAlternate ==
    Simulating =>
        \A k \in 1..Len(trades) :
            /\ trades[k] = 1 => LastActionBefore(k) \in {0, -1}
            /\ trades[k] = -1 => LastActionBefore(k) = 1
            /\ positions[k] \in {0, 1}
            /\ ActionsUpTo(1, k) - ActionsUpTo(-1, k) = positions[k]

\* Hold, Buy, Sell and Buy again on four days
C29_Witness ==
    /\ Simulating
    /\ trades = <<0, 1, -1, 1>>
    /\ positions = <<0, 1, 0, 1>>

\* yesterday's cash + yesterday's shares * today's close - the fee charged
\* today, as one fraction
ValueLessFee ==
    LET d == cash.d * total_fees.d * total_fees'.d
    IN  Rat(cash.n * total_fees.d * total_fees'.d
                + holdings * Close[i] * d
                - total_fees'.n * cash.d * total_fees.d
                + total_fees.n * cash.d * total_fees'.d,
            d)

\* C30: a trade only costs its fee: on every day, end-of-day portfolio value
\* equals (previous day's cash + previous day's shares * today's close) minus
\* the fee charged today, so with feeRate = 0 executing a Buy or Sell leaves
\* the portfolio value at that day's close unchanged, and while Flat the
\* portfolio value equals cash and does not move with the price.
C30_TradeCostsOnlyFee ==
    [][InLoop =>
          /\ portfolio_values'[i] = ValueLessFee
          /\ fee_percentage = Zero =>
                 EqualsFraction(portfolio_values'[i],
                                cash.n + holdings * Close[i] * cash.d, cash.d)
          /\ holdings' = 0 => portfolio_values'[i] = cash'
          /\ (holdings = 0 /\ holdings' = 0) =>
                 /\ portfolio_values'[i] = cash
                 /\ i > 1 => portfolio_values'[i] = portfolio_values[i - 1]]_vars

\* shares bought at a fee and sold the next day at the same price: the value
\* fell by the fees alone; the day after, Flat, the price moved and the value
\* did not
C30_Witness ==
    /\ Simulating
    /\ i > 3
    /\ RLt(Zero, fee_percentage)
    /\ trades[i - 3] = 1 /\ trades[i - 2] = -1 /\ trades[i - 1] = 0
    /\ Close[i - 2] = Close[i - 3]
    /\ Close[i - 1] # Close[i - 2]
    /\ RLt(portfolio_values[i - 2], portfolio_values[i - 3])
    /\ portfolio_values[i - 1] = portfolio_values[i - 2]
    /\ holdings = 0

====
